---------------------------- MODULE Spec2Model ----------------------------
(***************************************************************************)
(* Model of generate_video_sections.py: the channel fetch, the date        *)
(* formatter, the fragment renderer, the document splitter, the assembler  *)
(* and the entry point.                                                    *)
(*                                                                         *)
(* Text is a sequence of tokens.  A token is one of the three tags the     *)
(* splitter's patterns name, a string of whitespace, or any other text.    *)
(* Each of the three tags begins with its only "<" and ends with its only  *)
(* ">", so two occurrences of tags in a text never overlap and a text has  *)
(* exactly one tokenisation in which every occurrence of a tag is a token. *)
(* Where generate_html_file concatenates, no tag can form across the seam: *)
(* content_html begins with two spaces and ends with ">".                  *)
(***************************************************************************)
EXTENDS Integers, Sequences, FiniteSets, TLC

VARIABLES
    pc,             \* position of main / of the function under study
    file,           \* text of video-scripts.html
    fileExists,     \* whether video-scripts.html can be opened
    sideFile,       \* text of video-scripts-output.txt
    written,        \* names of the files opened for writing so far
    readLog,        \* names of the files opened for reading so far
    content,        \* read_existing_html: the text read
    header,         \* generate_html_file: header
    footer,         \* generate_html_file: footer
    strategy,       \* read_existing_html: the return statement taken
    videos,         \* generate_html_file: the argument videos
    videos_sorted,  \* generate_html_file: videos_sorted
    runs,           \* number of generate_html_file calls made
    original,       \* text of video-scripts.html before the first call
    entries,        \* fetch_channel_videos: info['entries']
    idx,            \* fetch_channel_videos: entries consumed by the loop
    acc,            \* fetch_channel_videos: the local list videos
    fetched,        \* main: videos, the value fetch_channel_videos returned
    fetchOutcome,   \* fetch_channel_videos: which return was taken
    video,          \* generate_video_section_html: the argument video
    formatted_date, \* generate_video_section_html: formatted_date
    html,           \* generate_video_section_html: the value returned
    padYear         \* the C library's strftime pads %Y to four digits

vars == <<pc, file, fileExists, sideFile, written, readLog, content, header,
          footer, strategy, videos, videos_sorted, runs, original, entries,
          idx, acc, fetched, fetchOutcome, video, formatted_date, html,
          padYear>>

---------------------------------------------------------------------------
\* Bounds of the model.

MaxDocLen == 4
MaxRuns == 2
MaxVideos == 3
MaxTitleLen == 3
MaxEntries == 3

---------------------------------------------------------------------------
\* Tokens.

OpenTag == "<div class=\"content\">"
CloseDiv == "</div>"
CloseBody == "</body>"
Sp == " "
NL == "\n"
Indent8 == "        "
Indent12 == "            "
Indent16 == "                "
Indent20 == "                    "

Whitespace == {Sp, NL, Indent8, Indent12, Indent16, Indent20}

IsSpace(t) == t \in Whitespace

OutputPath == "video-scripts.html"
OutputTextFile == "video-scripts-output.txt"
NoFile == "None"

---------------------------------------------------------------------------
\* re.search over a text: 0 stands for None, i >= 1 for a match at token i.

RECURSIVE SkipSpace(_, _)
\* \s* from position i: the position of the first token that is not
\* whitespace (Len + 1 at the end of the text).  \s* is greedy and what
\* follows it is never whitespace, so backtracking finds nothing more.
SkipSpace(s, i) ==
    IF i <= Len(s) /\ IsSpace(s[i]) THEN SkipSpace(s, i + 1) ELSE i

IsAt(s, i, t) == i <= Len(s) /\ s[i] = t

\* </div>\s*</div>\s*</body> matched at position i.
ClosingAt(s, i) ==
    /\ IsAt(s, i, CloseDiv)
    /\ LET b == SkipSpace(s, i + 1) IN
       /\ IsAt(s, b, CloseDiv)
       /\ IsAt(s, SkipSpace(s, b + 1), CloseBody)

Leftmost(S) == IF S = {} THEN 0 ELSE CHOOSE i \in S : \A j \in S : i <= j

\* re.search(r'(<div class="content">)', content): start of the match.
ContentStartMatch(s) == Leftmost({i \in 1..Len(s) : s[i] = OpenTag})

\* Mutant: the pattern without its leading \s*.
ContentEndMatchNoLead(s) == Leftmost({i \in 1..Len(s) : ClosingAt(s, i)})

\* Mutant: the pattern with \s+ for its leading \s*.
ContentEndMatchPlus(s) ==
    Leftmost({i \in 1..Len(s) : IsSpace(s[i]) /\ ClosingAt(s, SkipSpace(s, i))})

\* re.search(r'(\s*</div>\s*</div>\s*</body>)', content): start of the match.
ContentEndMatch(s) ==
    Leftmost({i \in 1..Len(s) : ClosingAt(s, SkipSpace(s, i))})

\* content.find('<div class="content">'): 0 stands for -1.
FindOpenTag(s) == Leftmost({i \in 1..Len(s) : s[i] = OpenTag})

\* re.search(r'</div>\s*</div>\s*</body>', content): start of the match.
EndPattern(s) == Leftmost({i \in 1..Len(s) : ClosingAt(s, i)})

\* content[:k] and content[k:] with k counted in tokens from 1.
UpTo(s, k) == SubSeq(s, 1, k)
From(s, k) == SubSeq(s, k, Len(s))

\* Mutant: the last resort returns the text as footer.
ReadExistingHtmlSwapped(s) ==
    IF ContentStartMatch(s) # 0 /\ ContentEndMatch(s) # 0
    THEN [header |-> UpTo(s, ContentStartMatch(s)),
          footer |-> From(s, ContentEndMatch(s)),
          strategy |-> "primary"]
    ELSE [header |-> <<>>, footer |-> s, strategy |-> "lastresort"]

\* read_existing_html on the text of the file.
ReadExistingHtml(s) ==
    LET content_start_match == ContentStartMatch(s)
        content_end_match == ContentEndMatch(s)
        start_idx == FindOpenTag(s)
        end_pattern == EndPattern(s)
    IN  IF content_start_match # 0 /\ content_end_match # 0
        THEN [header |-> UpTo(s, content_start_match),
              footer |-> From(s, content_end_match),
              strategy |-> "primary"]
        ELSE IF start_idx # 0 /\ end_pattern # 0
        THEN [header |-> UpTo(s, start_idx),
              footer |-> From(s, end_pattern),
              strategy |-> "fallback"]
        ELSE [header |-> s, footer |-> <<>>, strategy |-> "lastresort"]

---------------------------------------------------------------------------
\* Characters of titles and dates: one-character strings.

DigitChars == <<"0", "1", "2", "3", "4", "5", "6", "7", "8", "9">>

IsDigit(c) == \E i \in 1..10 : DigitChars[i] = c

DigitVal(c) == (CHOOSE i \in 1..10 : DigitChars[i] = c) - 1

NonZeroDigit(c) == IsDigit(c) /\ c # "0"

\* ord(c) for the characters dates are made of.
Ord(c) == IF c = " " THEN 32 ELSE 48 + DigitVal(c)

RECURSIVE StrLess(_, _)
\* a < b on str: lexicographic by code point, a proper prefix first.
StrLess(a, b) ==
    IF b = <<>> THEN FALSE
    ELSE IF a = <<>> THEN TRUE
    ELSE IF Head(a) # Head(b) THEN Ord(Head(a)) < Ord(Head(b))
    ELSE StrLess(Tail(a), Tail(b))

---------------------------------------------------------------------------
\* format_date.

DateUnknown == <<"Date unknown">>

MonthNames == <<"January", "February", "March", "April", "May", "June",
                "July", "August", "September", "October", "November",
                "December">>

\* Mutant: every fourth year is a leap year.
IsLeapEveryFourth(y) == y % 4 = 0

IsLeap(y) == (y % 4 = 0) /\ ((y % 100 # 0) \/ (y % 400 = 0))

DaysInMonth(y, m) ==
    IF m = 2 THEN (IF IsLeap(y) THEN 29 ELSE 28)
    ELSE IF m \in {4, 6, 9, 11} THEN 30 ELSE 31

RECURSIVE IntOf(_)
\* int(text) of a group the pattern matched: digits, after an optional space.
IntOf(s) ==
    IF s = <<>> THEN 0
    ELSE IF Head(s) = " " THEN IntOf(Tail(s))
    ELSE DigitVal(s[Len(s)]) + 10 * IntOf(SubSeq(s, 1, Len(s) - 1))

At(s, i) == IF i <= Len(s) THEN s[i] ELSE ""

\* %m is (1[0-2]|0[1-9]|[1-9]) at position 5: the positions after each
\* alternative that matches, in the order the regex engine tries them.
MonthEnds(s) ==
    (IF \/ At(s, 5) = "1" /\ At(s, 6) \in {"0", "1", "2"}
        \/ At(s, 5) = "0" /\ NonZeroDigit(At(s, 6))
     THEN <<7>> ELSE <<>>)
    \o (IF NonZeroDigit(At(s, 5)) THEN <<6>> ELSE <<>>)

\* %d is (3[0-1]|[1-2]\d|0[1-9]|[1-9]| [1-9]) at position j: the position
\* after the first alternative that matches, 0 when none does.
DayEnd(s, j) ==
    IF At(s, j) = "3" /\ At(s, j + 1) \in {"0", "1"} THEN j + 2
    ELSE IF At(s, j) \in {"1", "2"} /\ IsDigit(At(s, j + 1)) THEN j + 2
    ELSE IF At(s, j) = "0" /\ NonZeroDigit(At(s, j + 1)) THEN j + 2
    ELSE IF NonZeroDigit(At(s, j)) THEN j + 1
    ELSE IF At(s, j) = " " /\ NonZeroDigit(At(s, j + 1)) THEN j + 2
    ELSE 0

\* datetime.strptime(upload_date, '%Y%m%d'): ok is FALSE where it raises
\* ValueError (no match, unconverted data, or no such day in the calendar).
Strptime(s) ==
    LET bad == [ok |-> FALSE, year |-> 0, month |-> 0, day |-> 0]
        yearOk == \A i \in 1..4 : IsDigit(At(s, i))
        ms == MonthEnds(s)
        hits == {k \in 1..Len(ms) : DayEnd(s, ms[k]) # 0}
    IN  IF ~yearOk \/ hits = {} THEN bad
        ELSE LET k == CHOOSE h \in hits : \A g \in hits : h <= g
                 mEnd == ms[k]
                 dEnd == DayEnd(s, mEnd)
                 y == IntOf(SubSeq(s, 1, 4))
                 m == IntOf(SubSeq(s, 5, mEnd - 1))
                 d == IntOf(SubSeq(s, mEnd, dEnd - 1))
             IN  IF dEnd # Len(s) + 1 THEN bad
                 ELSE IF y < 1 \/ d > DaysInMonth(y, m) THEN bad
                 ELSE [ok |-> TRUE, year |-> y, month |-> m, day |-> d]

RECURSIVE Decimal(_)
\* The decimal digits of n >= 0, no leading zero.
Decimal(n) ==
    IF n < 10 THEN <<DigitChars[n + 1]>>
    ELSE Decimal(n \div 10) \o <<DigitChars[(n % 10) + 1]>>

RECURSIVE ZeroPad(_, _)
ZeroPad(s, w) == IF Len(s) >= w THEN s ELSE ZeroPad(<<"0">> \o s, w)

\* date_obj.strftime('%B %d, %Y').  The C library decides whether %Y pads a
\* year below 1000 to four digits: pad is that decision.
Strftime(p, pad) ==
    <<MonthNames[p.month], " ">> \o ZeroPad(Decimal(p.day), 2) \o <<",", " ">>
    \o (IF pad THEN ZeroPad(Decimal(p.year), 4) ELSE Decimal(p.year))

FormatDate(upload_date, pad) ==
    IF upload_date = <<>> \/ Len(upload_date) # 8 THEN DateUnknown
    ELSE LET date_obj == Strptime(upload_date)
         IN  IF date_obj.ok THEN Strftime(date_obj, pad) ELSE DateUnknown

---------------------------------------------------------------------------
\* generate_video_section_html.

RECURSIVE Replace(_, _, _)
\* str.replace(old, new) for a one-character old.
Replace(s, old, new) ==
    IF s = <<>> THEN <<>>
    ELSE (IF Head(s) = old THEN new ELSE <<Head(s)>>)
         \o Replace(Tail(s), old, new)

AmpEntity == <<"&", "a", "m", "p", ";">>
LtEntity == <<"&", "l", "t", ";">>
GtEntity == <<"&", "g", "t", ";">>

\* Mutant: the ampersand replaced last.
EscapeTitleAmpLast(t) ==
    Replace(Replace(Replace(t, "<", LtEntity), ">", GtEntity), "&", AmpEntity)

EscapeTitle(t) ==
    Replace(Replace(Replace(t, "&", AmpEntity), "<", LtEntity), ">", GtEntity)

\* The template around the three substitutions.  The glyph before "Watch on
\* YouTube" is part of that text token.
SectionHead ==
    <<Indent12, "<!-- Video Section -->", NL,
      Indent12, "<div class=\"video-section\">", NL,
      Indent16, "<h2 class=\"video-title\">">>

SectionMid1 == <<"</h2>", NL, Indent16, "<p class=\"video-date\">Published: ">>

SectionMid2 == <<"</p>", NL, Indent16, "<a href=\"">>

SectionTail ==
    <<"\" class=\"video-link\" target=\"_blank\">", NL,
      Indent20, "Watch on YouTube", NL,
      Indent16, "</a>", NL,
      Indent16, "<div class=\"scripts-grid\">", NL,
      Indent20, "<!-- Add script files here -->", NL,
      Indent16, CloseDiv, NL,
      Indent12, CloseDiv>>

GenerateVideoSectionHtml(v, pad) ==
    LET date == FormatDate(v.upload_date, pad)
        title == EscapeTitle(v.title)
    IN  SectionHead \o title \o SectionMid1 \o date \o SectionMid2
        \o v.url \o SectionTail

---------------------------------------------------------------------------
\* generate_html_file.

ZeroDate == <<"0", "0", "0", "0", "0", "0", "0", "0">>

\* key=lambda x: x['upload_date'] if x['upload_date'] else '00000000'
SortKey(x) == IF x.upload_date # <<>> THEN x.upload_date ELSE ZeroDate

\* Mutant: x goes before the elements whose key equals its own.
InsertDescUnstable(sorted, x) ==
    LET notLarger == {i \in 1..Len(sorted) :
                         ~StrLess(SortKey(x), SortKey(sorted[i]))}
        at == IF notLarger = {} THEN Len(sorted) + 1
              ELSE CHOOSE i \in notLarger : \A j \in notLarger : i <= j
    IN  SubSeq(sorted, 1, at - 1) \o <<x>> \o SubSeq(sorted, at, Len(sorted))

\* Where a stable descending sort puts x in a list already sorted: before the
\* first element whose key is smaller, after every element with an equal key.
InsertDesc(sorted, x) ==
    LET smaller == {i \in 1..Len(sorted) : StrLess(SortKey(sorted[i]), SortKey(x))}
        at == IF smaller = {} THEN Len(sorted) + 1
              ELSE CHOOSE i \in smaller : \A j \in smaller : i <= j
    IN  SubSeq(sorted, 1, at - 1) \o <<x>> \o SubSeq(sorted, at, Len(sorted))

RECURSIVE SortedVideos(_)
\* sorted(videos, key=..., reverse=True): stable, largest key first.
SortedVideos(vs) ==
    IF vs = <<>> THEN <<>>
    ELSE InsertDesc(SortedVideos(SubSeq(vs, 1, Len(vs) - 1)), vs[Len(vs)])

RECURSIVE JoinNL(_)
\* "\n".join(video_sections)
JoinNL(sections) ==
    IF sections = <<>> THEN <<>>
    ELSE IF Len(sections) = 1 THEN sections[1]
    ELSE sections[1] \o <<NL>> \o JoinNL(Tail(sections))

VideoSections(sorted, pad) ==
    [i \in 1..Len(sorted) |-> GenerateVideoSectionHtml(sorted[i], pad)]

\* Mutant: a newline after the wrapper's closing tag.
ContentHtmlTrailingNL(video_sections) ==
    <<Indent8, OpenTag, NL>> \o JoinNL(video_sections)
    \o <<NL, Indent8, CloseDiv, NL>>

ContentHtml(video_sections) ==
    <<Indent8, OpenTag, NL>> \o JoinNL(video_sections) \o <<NL, Indent8, CloseDiv>>

CompleteHtml(h, vs, f, pad) ==
    h \o ContentHtml(VideoSections(SortedVideos(vs), pad)) \o f

\* The files a call opens for writing.
FilesWritten(dry_run, output_text_file) ==
    (IF output_text_file # NoFile THEN {output_text_file} ELSE {})
    \cup (IF dry_run THEN {} ELSE {OutputPath})

\* generate_html_file(vs, OutputPath, dry_run, output_text_file) when the
\* file can be opened.
GenerateHtmlFile(vs, dry_run, output_text_file) ==
    LET split == ReadExistingHtml(file)
        complete_html == CompleteHtml(split.header, vs, split.footer, padYear)
    IN  /\ fileExists
        /\ content' = file
        /\ header' = split.header
        /\ footer' = split.footer
        /\ strategy' = split.strategy
        /\ videos' = vs
        /\ videos_sorted' = SortedVideos(vs)
        /\ readLog' = readLog \cup {OutputPath}
        /\ written' = written \cup FilesWritten(dry_run, output_text_file)
        /\ sideFile' = IF output_text_file # NoFile THEN complete_html ELSE sideFile
        /\ file' = IF dry_run THEN file ELSE complete_html
        /\ runs' = runs + 1
        /\ UNCHANGED <<fileExists, original, padYear>>

---------------------------------------------------------------------------
\* Values of the model's inputs.

\* video_data as fetch_channel_videos builds it.
MkVideo(title, video_id, upload_date) ==
    [title |-> title,
     video_id |-> video_id,
     url |-> <<"https://youtu.be/", video_id>>,
     upload_date |-> upload_date,
     description |-> ""]

Date20240101 == <<"2", "0", "2", "4", "0", "1", "0", "1">>
Date20240301 == <<"2", "0", "2", "4", "0", "3", "0", "1">>
Date20230101 == <<"2", "0", "2", "3", "0", "1", "0", "1">>

VideoA == MkVideo(<<"A", " ", "&", " ", "B">>, "abc123", Date20240101)
VideoB == MkVideo(<<"<", "b", ">">>, "xyz789", <<>>)

SeqsUpTo(S, n) == UNION {[1..k -> S] : k \in 0..n}

DocAlphabet == {OpenTag, CloseDiv, CloseBody, Sp, "x"}

\* A page laid out as the script expects, with text around the container.
ExistingPage ==
    <<"<body>", NL, Indent8, OpenTag, NL, Indent12, "<p>old</p>", NL,
      Indent8, CloseDiv, NL, Sp, CloseDiv, NL, CloseBody, NL, "</html>">>

Docs == SeqsUpTo(DocAlphabet, MaxDocLen) \cup {ExistingPage}

GenVideoLists == {<<>>, <<VideoB, VideoA>>}

fetchVars == <<entries, idx, acc, fetched, fetchOutcome>>
renderVars == <<video, formatted_date, html>>

FetchIdle ==
    /\ entries = <<>>
    /\ idx = 0
    /\ acc = <<>>
    /\ fetched = <<>>
    /\ fetchOutcome = "none"

RenderIdle ==
    /\ video = MkVideo(<<>>, "", <<>>)
    /\ formatted_date = <<>>
    /\ html = <<>>

\* Before the first call of generate_html_file.
NothingGenerated ==
    /\ sideFile = <<>>
    /\ written = {}
    /\ readLog = {}
    /\ content = <<>>
    /\ header = <<>>
    /\ footer = <<>>
    /\ strategy = "none"
    /\ videos = <<>>
    /\ videos_sorted = <<>>
    /\ runs = 0

---------------------------------------------------------------------------
\* SpecGen: successive generate_html_file(videos, path) calls with
\* dry_run=False, each reading the file the one before wrote.

InitGen ==
    /\ pc = "generate"
    /\ file \in Docs
    /\ original = file
    /\ fileExists = TRUE
    /\ padYear = TRUE  \* no year below 1000 in GenVideoLists: no effect here
    /\ NothingGenerated
    /\ FetchIdle
    /\ RenderIdle

GenerateCommit(vs) ==
    /\ pc = "generate"
    /\ runs < MaxRuns
    /\ GenerateHtmlFile(vs, FALSE, NoFile)
    /\ UNCHANGED <<pc, fetchVars, renderVars>>

NextGen == \E vs \in GenVideoLists : GenerateCommit(vs)

SpecGen == InitGen /\ [][NextGen]_vars

---------------------------------------------------------------------------
\* What the claims about the splitter speak of, stated on the text itself.

AllSpace(s, a, b) == \A k \in a..b : IsSpace(s[k])

HasOpenTag(s) == \E i \in 1..Len(s) : s[i] = OpenTag

FirstOpenTag(s) ==
    LET opens == {i \in 1..Len(s) : s[i] = OpenTag}
    IN  CHOOSE i \in opens : \A j \in opens : i <= j

\* </div> </div> </body> begins at i, only whitespace between the three.
ClosingSequenceAt(s, i) ==
    /\ s[i] = CloseDiv
    /\ \E j \in (i + 1)..Len(s) :
          /\ s[j] = CloseDiv
          /\ AllSpace(s, i + 1, j - 1)
          /\ \E k \in (j + 1)..Len(s) :
                s[k] = CloseBody /\ AllSpace(s, j + 1, k - 1)

ClosingStarts(s) == {i \in 1..Len(s) : ClosingSequenceAt(s, i)}

HasClosing(s) == ClosingStarts(s) # {}

FirstClosing(s) ==
    LET starts == ClosingStarts(s)
    IN  CHOOSE i \in starts : \A j \in starts : i <= j

\* Where the maximal run of whitespace that ends just before i begins.
SpaceRunStart(s, i) ==
    CHOOSE w \in 1..i :
        AllSpace(s, w, i - 1) /\ (w > 1 => ~IsSpace(s[w - 1]))

OpeningPrecedesClosing(s) ==
    HasOpenTag(s) /\ HasClosing(s) /\ FirstOpenTag(s) < FirstClosing(s)

\* The wrapper generate_html_file built in its latest call.
LatestWrapper == ContentHtml(VideoSections(videos_sorted, padYear))

\* C1: when the text read holds the opening tag and the closing sequence, the
\* header is the text up to the end of the first opening tag and the footer is
\* the text from the start of the whitespace run just before the first closing
\* sequence, so nothing before the footer's first token is whitespace.
C1_PrimarySplit ==
    (runs > 0 /\ HasOpenTag(content) /\ HasClosing(content)) =>
        LET w == SpaceRunStart(content, FirstClosing(content)) IN
        /\ strategy = "primary"
        /\ header = SubSeq(content, 1, FirstOpenTag(content))
        /\ footer = SubSeq(content, w, Len(content))
        /\ (w > 1 => ~IsSpace(content[w - 1]))

C1_Witness ==
    /\ strategy = "primary"
    /\ IsSpace(footer[1])
    /\ Len(header) + Len(footer) < Len(content)

\* C2: from a document whose opening tag precedes its closing sequence, every
\* commit-mode run computes the header and the footer the first run computed,
\* and a run given the video list of the run before leaves the file as it was.
C2_Idempotent ==
    [][(runs' = runs + 1 /\ OpeningPrecedesClosing(original)) =>
          /\ header' = ReadExistingHtml(original).header
          /\ footer' = ReadExistingHtml(original).footer
          /\ ((runs >= 1 /\ videos' = videos) => file' = file)]_vars

C2_Witness ==
    /\ runs = MaxRuns
    /\ OpeningPrecedesClosing(original)
    /\ videos = <<VideoB, VideoA>>
    /\ file = header \o LatestWrapper \o footer
    /\ content = file

\* C3: the splitter returns a pair for every text, and when the text lacks the
\* opening tag or the closing sequence the pair is (text, ""), so the document
\* written is the text read followed by the new wrapper and nothing more.
C3_NeverFails ==
    runs > 0 =>
        /\ strategy \in {"primary", "fallback", "lastresort"}
        /\ (~(HasOpenTag(content) /\ HasClosing(content)) =>
               /\ header = content
               /\ footer = <<>>
               /\ file = content \o LatestWrapper)

C3_Witness ==
    /\ strategy = "lastresort"
    /\ content # <<>>
    /\ file = content \o LatestWrapper

\* C9: whenever the splitter returns a footer, header and footer do not
\* overlap in the text read: the header is a prefix, the footer a suffix, and
\* their lengths sum to at most the length of the text.
C9_NoOverlap ==
    strategy \in {"primary", "fallback"} =>
        /\ Len(header) + Len(footer) <= Len(content)
        /\ header = SubSeq(content, 1, Len(header))
        /\ footer = SubSeq(content, Len(content) - Len(footer) + 1, Len(content))

\* C10: the fallback return is never taken, and the last-resort pair is
\* returned exactly when the text lacks the opening tag or the closing sequence.
C10_FallbackDead ==
    /\ strategy # "fallback"
    /\ runs > 0 =>
          (strategy = "lastresort" <=> ~(HasOpenTag(content) /\ HasClosing(content)))

C10_Witness ==
    /\ strategy = "lastresort"
    /\ HasOpenTag(content)
    /\ ~HasClosing(content)

---------------------------------------------------------------------------
\* SpecSort: one generate_html_file(videos, path, dry_run=True,
\* output_text_file=...) call, as main makes it, on a list of records.

SortDates == {<<>>, ZeroDate, Date20230101, Date20240301}

SortVideos == {MkVideo(<<"t">>, id, d) : id \in {"a", "b"}, d \in SortDates}

InitSort ==
    /\ pc = "assemble"
    /\ file = ExistingPage
    /\ original = file
    /\ fileExists = TRUE
    /\ padYear \in BOOLEAN
    /\ NothingGenerated
    /\ entries = <<>>
    /\ idx = 0
    /\ acc = <<>>
    /\ fetched \in SeqsUpTo(SortVideos, MaxVideos)
    /\ fetchOutcome = "none"
    /\ RenderIdle

Assemble ==
    /\ pc = "assemble"
    /\ GenerateHtmlFile(fetched, TRUE, OutputTextFile)
    /\ pc' = "assembled"
    /\ UNCHANGED <<fetchVars, renderVars>>

NextSort == Assemble

SpecSort == InitSort /\ [][NextSort]_vars

\* The date as a number, for records that have one.
DateNumber(d) == IntOf(d)

HasDate(x) == x.upload_date # <<>>

\* Two records the claim's order does not tell apart.
SameRank(x, y) ==
    \/ ~HasDate(x) /\ ~HasDate(y)
    \/ HasDate(x) /\ HasDate(y) /\ DateNumber(x.upload_date) = DateNumber(y.upload_date)
    \/ ~HasDate(x) /\ HasDate(y) /\ DateNumber(y.upload_date) = 0
    \/ HasDate(x) /\ ~HasDate(y) /\ DateNumber(x.upload_date) = 0

\* x may stand before y in the assembled document.
MayPrecede(x, y) ==
    \/ HasDate(x) /\ HasDate(y) /\ DateNumber(x.upload_date) >= DateNumber(y.upload_date)
    \/ HasDate(x) /\ ~HasDate(y)
    \/ ~HasDate(x) /\ ~HasDate(y)
    \/ ~HasDate(x) /\ HasDate(y) /\ DateNumber(y.upload_date) = 0

Bijections(n) ==
    {p \in [1..n -> 1..n] : \A i, j \in 1..n : p[i] = p[j] => i = j}

\* C4: the document written holds one fragment per input record, in an order
\* that is a permutation of the input, dates non-increasing, records without a
\* date after every record dated later than 00000000, and records of equal
\* rank in their input order.
C4_AssemblyOrder ==
    pc = "assembled" =>
        LET n == Len(fetched) IN
        /\ Len(videos_sorted) = n
        /\ \E p \in Bijections(n) :
              /\ \A i \in 1..n : videos_sorted[i] = fetched[p[i]]
              /\ \A i, j \in 1..n :
                    (i < j /\ SameRank(videos_sorted[i], videos_sorted[j]))
                        => p[i] < p[j]
        /\ \A i, j \in 1..n : i < j => MayPrecede(videos_sorted[i], videos_sorted[j])
        /\ sideFile = header
                      \o ContentHtml([i \in 1..n |->
                            GenerateVideoSectionHtml(videos_sorted[i], padYear)])
                      \o footer

C4_Witness ==
    /\ pc = "assembled"
    /\ fetched = <<MkVideo(<<"t">>, "a", <<>>), MkVideo(<<"t">>, "a", Date20230101),
                   MkVideo(<<"t">>, "b", Date20240301)>>
    /\ videos_sorted = <<fetched[3], fetched[2], fetched[1]>>
    /\ sideFile # <<>>

---------------------------------------------------------------------------
\* SpecRender: one generate_video_section_html(video) call.

TitleChars == {"&", "<", ">", "a", ";", "\""}

Titles == SeqsUpTo(TitleChars, MaxTitleLen)

DateChars == {"0", "1", "2", "3", "4", "9", " "}

DateYears ==
    {<<"0", "0", "0", "0">>, <<"0", "9", "0", "0">>, <<"1", "9", "0", "0">>,
     <<"2", "0", "0", "0">>, <<"2", "0", "2", "3">>, <<"2", "0", "2", "4">>,
     <<"2", "0", "x", "4">>, <<" ", "0", "2", "4">>}

\* Texts that are not eight characters long.
OtherLengths ==
    {<<>>, <<"2", "0", "2", "4">>, <<"2", "0", "2", "4", "1", "1">>,
     <<"2", "0", "2", "4", "0", "1", "1">>,
     <<"2", "0", "2", "4", "0", "1", "0", "1", "0">>}

DateInputs ==
    {y \o md : y \in DateYears, md \in [1..4 -> DateChars]} \cup OtherLengths

RenderInputs ==
    {MkVideo(t, "abc123", Date20240101) : t \in Titles}
    \cup {MkVideo(<<"a">>, "abc123", d) : d \in DateInputs}

InitRender ==
    /\ pc = "render"
    /\ file = <<>>
    /\ original = <<>>
    /\ fileExists = FALSE
    /\ padYear \in BOOLEAN
    /\ NothingGenerated
    /\ FetchIdle
    /\ video \in RenderInputs
    /\ formatted_date = <<>>
    /\ html = <<>>

Render ==
    /\ pc = "render"
    /\ formatted_date' = FormatDate(video.upload_date, padYear)
    /\ html' = GenerateVideoSectionHtml(video, padYear)
    /\ pc' = "rendered"
    /\ UNCHANGED <<file, fileExists, sideFile, written, readLog, content,
                   header, footer, strategy, videos, videos_sorted, runs,
                   original, fetchVars, video, padYear>>

NextRender == Render

SpecRender == InitRender /\ [][NextRender]_vars

\* The text between <h2 class="video-title"> and </h2> in the fragment.
RenderedTitle ==
    LET ends == {i \in 1..Len(html) : html[i] = "</h2>"}
        close == CHOOSE i \in ends : \A j \in ends : i <= j
    IN  SubSeq(html, Len(SectionHead) + 1, close - 1)

EntityOf(c) ==
    IF c = "&" THEN AmpEntity
    ELSE IF c = "<" THEN LtEntity
    ELSE IF c = ">" THEN GtEntity
    ELSE <<c>>

RECURSIVE CharByChar(_)
CharByChar(t) == IF t = <<>> THEN <<>> ELSE EntityOf(Head(t)) \o CharByChar(Tail(t))

EntityBeginsAt(r, i) ==
    \E e \in {AmpEntity, LtEntity, GtEntity} :
        i + Len(e) - 1 <= Len(r) /\ SubSeq(r, i, i + Len(e) - 1) = e

\* C5: the rendered title is the title with & < > mapped, character by
\* character, to &amp; &lt; &gt; and every other character kept; it holds no
\* < or >, and every & in it begins one of the three entities.
C5_TitleEscaping ==
    pc = "rendered" =>
        LET r == RenderedTitle IN
        /\ Head(html) = Indent12
        /\ r = CharByChar(video.title)
        /\ \A i \in 1..Len(r) : r[i] \notin {"<", ">"}
        /\ \A i \in 1..Len(r) : r[i] = "&" => EntityBeginsAt(r, i)

C5_Witness ==
    /\ pc = "rendered"
    /\ video.title = <<"<", "&", "\"">>
    /\ RenderedTitle = <<"&", "l", "t", ";", "&", "a", "m", "p", ";", "\"">>

\* The calendar, as the claim about format_date speaks of it.
AllDigits(d) == \A i \in 1..Len(d) : IsDigit(d[i])

YearOf(d) == 1000 * DigitVal(d[1]) + 100 * DigitVal(d[2]) + 10 * DigitVal(d[3]) + DigitVal(d[4])
MonthOf(d) == 10 * DigitVal(d[5]) + DigitVal(d[6])
DayOf(d) == 10 * DigitVal(d[7]) + DigitVal(d[8])

CalendarLeap(y) == IF y % 100 = 0 THEN y % 400 = 0 ELSE y % 4 = 0

CalendarDays(y, m) ==
    IF m = 2 /\ CalendarLeap(y) THEN 29
    ELSE <<31, 28, 31, 30, 31, 30, 31, 31, 30, 31, 30, 31>>[m]

ValidCalendarDate(d) ==
    /\ YearOf(d) >= 1
    /\ MonthOf(d) \in 1..12
    /\ DayOf(d) >= 1
    /\ DayOf(d) <= CalendarDays(YearOf(d), MonthOf(d))

\* Reading "Month DD, YYYY" back: <<year, month, day>>.
Reparse(out) ==
    <<IntOf(SubSeq(out, 7, Len(out))),
      CHOOSE m \in 1..12 : MonthNames[m] = out[1],
      IntOf(SubSeq(out, 3, 4))>>

\* C6: format_date returns "Date unknown" for a text that is empty, not eight
\* characters long, or eight digits that are no calendar date; for eight digits
\* that are a calendar date it returns the month's name, the two-digit day and
\* the year, which read back give the same year, month and day.
C6_FormatDate ==
    pc = "rendered" =>
        LET d == video.upload_date IN
        /\ (d = <<>> \/ Len(d) # 8 \/ (AllDigits(d) /\ ~ValidCalendarDate(d)))
              => formatted_date = DateUnknown
        /\ (Len(d) = 8 /\ AllDigits(d) /\ ValidCalendarDate(d)) =>
              /\ formatted_date # DateUnknown
              /\ formatted_date[1] \in {MonthNames[m] : m \in 1..12}
              /\ SubSeq(formatted_date, 2, 6) =
                    <<" ", d[7], d[8], ",", " ">>
              /\ Reparse(formatted_date) = <<YearOf(d), MonthOf(d), DayOf(d)>>

C6_Witness ==
    /\ pc = "rendered"
    /\ video.upload_date = <<"2", "0", "2", "4", "0", "2", "2", "9">>
    /\ formatted_date = <<"February", " ", "2", "9", ",", " ", "2", "0", "2", "4">>

---------------------------------------------------------------------------
\* SpecMain: main, with fetch_channel_videos stepped through so that an
\* exception can arrive at any point inside its try block.

Untitled == <<"U", "n", "t", "i", "t", "l", "e", "d">>

\* An entry of info['entries']: None, or a dictionary whose 'id' may be
\* missing or empty (id = "") and whose 'title' may be missing.
MkEntry(none, id, hasTitle, title, upload_date) ==
    [none |-> none, id |-> id, hasTitle |-> hasTitle, title |-> title,
     upload_date |-> upload_date]

EntrySet ==
    {MkEntry(TRUE, "", FALSE, <<>>, <<>>),
     MkEntry(FALSE, "", TRUE, <<"n", "o">>, Date20230101),
     MkEntry(FALSE, "abc123", TRUE, <<"A", " ", "&", " ", "B">>, Date20240101),
     MkEntry(FALSE, "xyz789", FALSE, <<>>, <<>>)}

EntryLists == SeqsUpTo(EntrySet, MaxEntries)

\* if entry and entry.get('id')
EntryKept(e) == ~e.none /\ e.id # ""

VideoOfEntry(e) ==
    MkVideo(IF e.hasTitle THEN e.title ELSE Untitled, e.id, e.upload_date)

\* Mutant: the handler returns what the loop had collected.
ExceptResultPartial(collected) == collected

\* except Exception as e: ... return []
ExceptResult(collected) == <<>>

\* Mutant: main passes dry_run=False.
MainDryRunOff == FALSE

\* main: generate_html_file(videos, output_file, dry_run=True, ...)
MainDryRun == TRUE

MainDocs == {ExistingPage, <<"<body>", NL, CloseBody>>}

genVars == <<file, fileExists, sideFile, written, readLog, content, header,
             footer, strategy, videos, videos_sorted, runs, original, padYear>>

InitMain ==
    /\ pc = "fetch_open"
    /\ file \in MainDocs
    /\ original = file
    /\ fileExists \in BOOLEAN
    /\ padYear \in BOOLEAN
    /\ NothingGenerated
    /\ FetchIdle
    /\ RenderIdle

\* with yt_dlp.YoutubeDL(ydl_opts) as ydl: print(...)
FetchOpen ==
    /\ pc = "fetch_open"
    /\ pc' = "fetch_extract"
    /\ UNCHANGED <<genVars, fetchVars, renderVars>>

\* info = ydl.extract_info(...); if 'entries' in info
FetchExtract ==
    /\ pc = "fetch_extract"
    /\ \E hasEntries \in BOOLEAN, es \in EntryLists :
          /\ entries' = IF hasEntries THEN es ELSE <<>>
          /\ pc' = IF hasEntries THEN "fetch_iter" ELSE "fetch_return"
    /\ UNCHANGED <<genVars, idx, acc, fetched, fetchOutcome, renderVars>>

\* One turn of for entry in info['entries'].
FetchEntry ==
    /\ pc = "fetch_iter"
    /\ idx < Len(entries)
    /\ idx' = idx + 1
    /\ acc' = IF EntryKept(entries[idx + 1])
              THEN Append(acc, VideoOfEntry(entries[idx + 1]))
              ELSE acc
    /\ UNCHANGED <<pc, genVars, entries, fetched, fetchOutcome, renderVars>>

FetchLoopEnd ==
    /\ pc = "fetch_iter"
    /\ idx = Len(entries)
    /\ pc' = "fetch_return"
    /\ UNCHANGED <<genVars, fetchVars, renderVars>>

\* print(f"Found ..."); return videos
FetchReturn ==
    /\ pc = "fetch_return"
    /\ fetched' = acc
    /\ fetchOutcome' = "returned"
    /\ pc' = "main_check"
    /\ UNCHANGED <<genVars, entries, idx, acc, renderVars>>

\* An exception raised anywhere inside the try block.
FetchExcept ==
    /\ pc \in {"fetch_open", "fetch_extract", "fetch_iter", "fetch_return"}
    /\ fetched' = ExceptResult(acc)
    /\ fetchOutcome' = "excepted"
    /\ pc' = "main_check"
    /\ UNCHANGED <<genVars, entries, idx, acc, renderVars>>

\* if not videos: print(...); return
MainExit ==
    /\ pc = "main_check"
    /\ fetched = <<>>
    /\ pc' = "exited"
    /\ UNCHANGED <<genVars, fetchVars, renderVars>>

MainGenerate ==
    /\ pc = "main_check"
    /\ fetched # <<>>
    /\ GenerateHtmlFile(fetched, MainDryRun, OutputTextFile)
    /\ pc' = "done"
    /\ UNCHANGED <<fetchVars, renderVars>>

\* open(file_path, 'r') raises: video-scripts.html cannot be opened.
MainGenerateRaises ==
    /\ pc = "main_check"
    /\ fetched # <<>>
    /\ ~fileExists
    /\ pc' = "raised"
    /\ UNCHANGED <<genVars, fetchVars, renderVars>>

NextMain ==
    \/ FetchOpen
    \/ FetchExtract
    \/ FetchEntry
    \/ FetchLoopEnd
    \/ FetchReturn
    \/ FetchExcept
    \/ MainExit
    \/ MainGenerate
    \/ MainGenerateRaises

SpecMain == InitMain /\ [][NextMain]_vars

\* C7: main never writes video-scripts.html; when the fetch gave no video it
\* exits having read and written no file; when it gave some and main runs to
\* its end, the one file written is video-scripts-output.txt, holding header,
\* content wrapper and footer.
C7_NonDestructive ==
    /\ OutputPath \notin written
    /\ file = original
    /\ (fetchOutcome # "none" /\ fetched = <<>>) =>
          /\ pc \in {"main_check", "exited"}
          /\ readLog = {}
          /\ written = {}
          /\ sideFile = <<>>
    /\ pc = "exited" => fetched = <<>>
    /\ pc = "raised" => written = {}
    /\ pc = "done" =>
          /\ fetched # <<>>
          /\ written = {OutputTextFile}
          /\ header = ReadExistingHtml(original).header
          /\ footer = ReadExistingHtml(original).footer
          /\ sideFile = header \o LatestWrapper \o footer

C7_Witness ==
    /\ pc = "done"
    /\ Len(fetched) = 2
    /\ written = {OutputTextFile}
    /\ sideFile = header \o LatestWrapper \o footer
    /\ file = ExistingPage

\* The entries fetch_channel_videos keeps, in order.
KeptEntries == SelectSeq(entries, EntryKept)

\* C8: after an exception anywhere in fetch_channel_videos main holds the
\* empty list, whatever had been collected, and goes on to its early exit as it
\* does for a channel without videos; without an exception it holds, in entry
\* order, one record per entry that is not None and has a non-empty id, with
\* url "https://youtu.be/" followed by the id.
C8_FetchFailure ==
    /\ fetchOutcome = "excepted" => fetched = <<>>
    /\ (fetchOutcome # "none" /\ fetched = <<>>) =>
          (pc \in {"main_check", "exited"} /\ readLog = {} /\ written = {})
    /\ fetchOutcome = "returned" =>
          /\ Len(fetched) = Len(KeptEntries)
          /\ \A i \in 1..Len(fetched) :
                /\ fetched[i].video_id = KeptEntries[i].id
                /\ fetched[i].url = <<"https://youtu.be/", KeptEntries[i].id>>
                /\ fetched[i].upload_date = KeptEntries[i].upload_date
    /\ pc \in {"exited", "done", "raised"} => fetchOutcome # "none"

C8_Witness ==
    /\ fetchOutcome = "excepted"
    /\ Len(acc) = 2
    /\ idx < Len(entries)
    /\ fetched = <<>>
    /\ pc = "exited"

===========================================================================
